---- MODULE Spec2Model ----
(***************************************************************************)
(* The public chat page of Botfolio (PublicPortfolioPage with its          *)
(* StreamingMessage child, src/unnamed/part_004) as a state machine.       *)
(*                                                                         *)
(* JavaScript strings are sequences of one-character strings, so that      *)
(* trim(), slice() and length are computed and not assumed.  The value     *)
(* `undefined` is the distinguished tuple below.  Indices into `messages`  *)
(* are zero-based as in the source: message i is messages[i + 1].          *)
(*                                                                         *)
(* One action is one task of the browser's event loop: a DOM event         *)
(* handler, the continuation of a settled promise, or an interval          *)
(* callback, together with the re-render React commits for it (mounting,   *)
(* unmounting and effects of StreamingMessage included).  React flushes    *)
(* the updates of a discrete event before the next event is dispatched,    *)
(* so a handler reads the state the previous task left.                    *)
(* A render that throws is caught by no component of the page: React      *)
(* unmounts the page, after which nothing of it runs any more.             *)
(*                                                                         *)
(* The updates a promise continuation makes are rendered in a later task   *)
(* and the effect cleanups of that render later still.  The one place      *)
(* where this shows is an interval that has published its whole content    *)
(* and is armed for its completion tick when the continuation takes its    *)
(* StreamingMessage away: the tick can fire before clearInterval (line     *)
(* 72) and call the onDone it was given.  `orphan` records that such an    *)
(* interval exists and OrphanTick is its tick; any other task lets the     *)
(* cleanup run first.                                                      *)
(*                                                                         *)
(* The Old_ operators are the earlier version of the page                  *)
(* (src/frontend/src/pages/PublicPortfolioPage.js), as functions on its    *)
(* state.                                                                  *)
(*                                                                         *)
(* The click and key handlers are callable whenever the chat surface is    *)
(* rendered.  The `disabled` attributes of the three controls (lines 275,  *)
(* 291, 296) remove only calls that the guard of sendMessage (line 136)    *)
(* rejects anyway, so the guard is what the model exercises; typing is     *)
(* possible only while the input is enabled (line 291).                    *)
(***************************************************************************)
EXTENDS Integers, Sequences, FiniteSets, TLC

\* ------------------------------------------------------------------ bounds
\* most white space typed on either side of a word
MaxPadding == 1
\* longest answer text the chat API returns
MaxAnswerLen == 4
\* how many questions are accepted in one page session
MaxSends == 2

\* ------------------------------------------------------- values and strings
undefined == << "undefined" >>

null == -1

Falsy(v) == v = undefined \/ v = <<>>

IsSpace(c) == c = " "

RECURSIVE TrimStart(_)
TrimStart(s) ==
  IF s # <<>> /\ IsSpace(Head(s)) THEN TrimStart(Tail(s)) ELSE s

RECURSIVE TrimEnd(_)
TrimEnd(s) ==
  IF s # <<>> /\ IsSpace(s[Len(s)]) THEN TrimEnd(SubSeq(s, 1, Len(s) - 1)) ELSE s

\* String.prototype.trim
Trim(s) == TrimEnd(TrimStart(s))

\* String.prototype.slice(0, end) for 0 <= end <= length
Slice0(s, end) == SubSeq(s, 1, end)

Min(a, b) == IF a <= b THEN a ELSE b

\* the words the visitor types, the empty one included
InputWords == {<<>>, << "a" >>}

\* n characters of white space
Spaces(n) == [i \in 1..n |-> " "]

\* what the visitor can have in the input box: a word with the same amount
\* of white space, possibly none, on both sides
TypedTexts ==
  {Spaces(n) \o w \o Spaces(n) : w \in InputWords, n \in 0..MaxPadding}

AnswerAlphabet == << "p", "q", "r", "s", "t", "u", "v", "w", "x", "y", "z" >>

\* the answer texts the chat API returns, the empty answer included
AnswerTexts == {SubSeq(AnswerAlphabet, 1, n) : n \in {0, MaxAnswerLen}}

\* portfolio identifiers of the route /p/:customUrl
Urls == {"jane", "omar"}

\* the identifier of the route the page is mounted on
FirstUrl == "jane"

\* owner_name of the portfolio the lookup returns for an identifier
owner_name(url) == IF url = "jane" THEN << "J", "a", "n", "e" >> ELSE << "O", "m", "a", "r" >>

\* the suggested-question buttons the visitor clicks (indices into
\* recommendedQuestions; the four buttons differ only in the text they pass)
SuggestedClicked == {1}

recommendedQuestions == <<
  <<
     "T", "e", "l", "l", " ", "m", "e", " ", "a", "b", "o", "u", "t", " ", "y", "o",
     "u", "r", " ", "e", "x", "p", "e", "r", "i", "e", "n", "c", "e" >>,
  <<
     "W", "h", "a", "t", " ", "a", "r", "e", " ", "y", "o", "u", "r", " ", "k", "e",
     "y", " ", "s", "k", "i", "l", "l", "s", "?" >>,
  <<
     "W", "h", "a", "t", " ", "a", "r", "e", " ", "y", "o", "u", "r", " ", "s", "t",
     "r", "e", "n", "g", "t", "h", "s", "?" >>,
  <<
     "D", "e", "s", "c", "r", "i", "b", "e", " ", "y", "o", "u", "r", " ", "p", "r",
     "o", "j", "e", "c", "t", "s" >> >>

WelcomePrefix ==
  <<
     "H", "i", "!", " ", "I", "'", "m", " ", "t", "h", "e", " ", "A", "I", " ", "a",
     "s", "s", "i", "s", "t", "a", "n", "t", " ", "f", "o", "r", " ", "*", "*" >>

WelcomeSuffix ==
  <<
     "*", "*", "'", "s", " ", "p", "o", "r", "t", "f", "o", "l", "i", "o", ".", " ",
     "A", "s", "k", " ", "m", "e", " ", "a", "n", "y", "t", "h", "i", "n", "g", " ",
     "a", "b", "o", "u", "t", " ", "t", "h", "e", "i", "r", " ", "e", "x", "p", "e",
     "r", "i", "e", "n", "c", "e", ",", " ", "s", "k", "i", "l", "l", "s", ",", " ",
     "p", "r", "o", "j", "e", "c", "t", "s", ",", " ", "o", "r", " ", "q", "u", "a",
     "l", "i", "f", "i", "c", "a", "t", "i", "o", "n", "s", "!" >>

\* the seeded greeting, a template literal around owner_name
WelcomeText(owner) == WelcomePrefix \o owner \o WelcomeSuffix

FallbackText ==
  <<
     "S", "o", "r", "r", "y", ",", " ", "I", " ", "e", "n", "c", "o", "u", "n", "t",
     "e", "r", "e", "d", " ", "a", "n", " ", "e", "r", "r", "o", "r", ".", " ", "P",
     "l", "e", "a", "s", "e", " ", "t", "r", "y", " ", "a", "g", "a", "i", "n", "." >>

\* ------------------------------------------------------------------- state
VARIABLES
  customUrl,       \* useParams().customUrl
  portfolio,       \* useState(null): the looked-up portfolio
  loading,         \* useState(true)
  messages,        \* useState([]): the conversation, records [role, content]
  inputMessage,    \* useState(''): the input buffer
  sending,         \* useState(false)
  streamingIdx,    \* useState(null): zero-based index of the streaming message
  showLimitModal,  \* useState(false)
  displayed,       \* StreamingMessage: useState('')
  indexRef,        \* StreamingMessage: useRef(0)
  interval,        \* StreamingMessage: TRUE while its setInterval timer is armed
  renderError,     \* TRUE once a render has thrown and React has unmounted the page
  orphan,          \* TRUE while the interval of a StreamingMessage that the last
                   \* commit took away is still armed, its completion tick due
  lookups,         \* GET /public/:customUrl requests not yet settled
  inflight,        \* POST /chat/:customUrl requests not yet settled
  visited,         \* the portfolio identifiers the route has shown
  sends,           \* number of questions accepted so far
  last             \* the last step of sendMessage that ran, with its argument,
                   \* the input buffer and the popup flag it found, and whether
                   \* it passed the guard

vars == << customUrl, portfolio, loading, messages, inputMessage, sending,
           streamingIdx, showLimitModal, displayed, indexRef, interval,
           renderError, orphan, lookups, inflight, visited, sends, last >>

nullPortfolio == [present |-> FALSE, owner_name |-> <<>>]

Message(role, content) == [role |-> role, content |-> content]

Task(op, text, accepted) ==
  [op |-> op, text |-> text, input |-> inputMessage, modal |-> showLimitModal,
   accepted |-> accepted]

\* the i-th element of a sequence removed
Without(s, i) == SubSeq(s, 1, i - 1) \o SubSeq(s, i + 1, Len(s))

\* the page is mounted: no render has thrown
Mounted == ~renderError

\* the chat surface is rendered: the page is mounted and neither early
\* return of the component is taken
Surface == Mounted /\ ~loading /\ portfolio.present

\* message idx is rendered through StreamingMessage
Streams(msgs, idx) ==
  /\ idx # null
  /\ idx < Len(msgs)
  /\ msgs[idx + 1].role = "assistant"

\* what the page shows for message idx
Shown(idx) ==
  IF messages[idx + 1].role = "user" THEN messages[idx + 1].content
  ELSE IF idx = streamingIdx THEN displayed
  ELSE messages[idx + 1].content

\* the render of StreamingMessage throws: displayed.length < content.length
\* (line 78) reads the length of a content that is undefined
Throws(msgs, idx) == Streams(msgs, idx) /\ msgs[idx + 1].content = undefined

\* the render / mount / effect / cleanup of StreamingMessage in the commit
\* that takes the page to (msgs, idx); a render that throws is not caught by
\* any component of the page, so React unmounts the page with it
StreamingMessage(msgs, idx) ==
  IF Throws(msgs, idx)
    THEN /\ renderError' = TRUE
         /\ displayed' = <<>>
         /\ indexRef' = 0
         /\ interval' = FALSE
  ELSE IF ~Streams(msgs, idx)
    THEN /\ displayed' = <<>>
         /\ indexRef' = 0
         /\ interval' = FALSE
         /\ UNCHANGED renderError
    ELSE LET kept    == Streams(messages, streamingIdx) /\ idx = streamingIdx
             content == msgs[idx + 1].content
         IN /\ UNCHANGED renderError
            /\ IF kept /\ content = messages[idx + 1].content
                 THEN UNCHANGED << displayed, indexRef, interval >>
               ELSE IF Falsy(content)
                 THEN /\ displayed' = IF kept THEN displayed ELSE <<>>
                      /\ indexRef' = IF kept THEN indexRef ELSE 0
                      /\ interval' = FALSE
               ELSE /\ displayed' = <<>>
                    /\ indexRef' = 0
                    /\ interval' = TRUE

\* the commit that takes the page to (msgs, idx) was rendered in a task of
\* its own, after the promise continuation that made the updates, and its
\* effect cleanups run in a later task still; it takes away a
\* StreamingMessage whose interval has published the whole content and is
\* armed for its completion tick, so that tick can fire before clearInterval
\* (line 72) has run
Orphaned(msgs, idx) ==
  /\ ~Throws(msgs, idx)
  /\ interval
  /\ indexRef >= Len(messages[streamingIdx + 1].content)
  /\ ~( /\ Streams(msgs, idx)
        /\ idx = streamingIdx
        /\ msgs[idx + 1].content = messages[streamingIdx + 1].content )

CHUNK == 3

Init ==
  /\ customUrl = FirstUrl
  /\ portfolio = nullPortfolio
  /\ loading = TRUE
  /\ messages = <<>>
  /\ inputMessage = <<>>
  /\ sending = FALSE
  /\ streamingIdx = null
  /\ showLimitModal = FALSE
  /\ displayed = <<>>
  /\ indexRef = 0
  /\ interval = FALSE
  /\ renderError = FALSE
  /\ orphan = FALSE
  /\ lookups = << [url |-> customUrl] >>
  /\ inflight = <<>>
  /\ visited = {customUrl}
  /\ sends = 0
  /\ last = Task("mount", <<>>, TRUE)

\* ------------------------------------------------------ portfolio lookup
\* fetchPortfolio up to its await: the effect on [customUrl]
fetchPortfolio(url) == lookups' = Append(lookups, [url |-> url])

\* the route parameter changes under the mounted page
RouteChange(url) ==
  /\ Mounted
  /\ orphan' = FALSE
  /\ url \notin visited
  /\ customUrl' = url
  /\ fetchPortfolio(url)
  /\ visited' = visited \cup {url}
  /\ UNCHANGED << portfolio, loading, messages, inputMessage, sending,
                  streamingIdx, showLimitModal, displayed, indexRef, interval,
                  renderError, inflight, sends, last >>

\* fetchPortfolio clearing the sending flag with the new conversation
LookupFound_clearingSending(k) ==
  /\ Mounted
  /\ k \in 1..Len(lookups)
  /\ portfolio' = [present |-> TRUE, owner_name |-> owner_name(lookups[k].url)]
  /\ messages' = << Message("assistant", WelcomeText(owner_name(lookups[k].url))) >>
  /\ loading' = FALSE
  /\ sending' = FALSE
  /\ lookups' = Without(lookups, k)
  /\ StreamingMessage(messages', streamingIdx)
  /\ orphan' = Orphaned(messages', streamingIdx)
  /\ UNCHANGED << customUrl, inputMessage, streamingIdx,
                  showLimitModal, inflight, visited, sends, last >>

\* fetchPortfolio appending the greeting to the list it finds
LookupFound_appending(k) ==
  /\ Mounted
  /\ k \in 1..Len(lookups)
  /\ portfolio' = [present |-> TRUE, owner_name |-> owner_name(lookups[k].url)]
  /\ messages' = Append(messages,
                        Message("assistant", WelcomeText(owner_name(lookups[k].url))))
  /\ loading' = FALSE
  /\ lookups' = Without(lookups, k)
  /\ StreamingMessage(messages', streamingIdx)
  /\ orphan' = Orphaned(messages', streamingIdx)
  /\ UNCHANGED << customUrl, inputMessage, sending, streamingIdx,
                  showLimitModal, inflight, visited, sends, last >>

\* fetchPortfolio after its await, the lookup having succeeded
LookupFound(k) ==
  /\ Mounted
  /\ k \in 1..Len(lookups)
  /\ portfolio' = [present |-> TRUE, owner_name |-> owner_name(lookups[k].url)]
  /\ messages' = << Message("assistant", WelcomeText(owner_name(lookups[k].url))) >>
  /\ loading' = FALSE
  /\ lookups' = Without(lookups, k)
  /\ StreamingMessage(messages', streamingIdx)
  /\ orphan' = Orphaned(messages', streamingIdx)
  /\ UNCHANGED << customUrl, inputMessage, sending, streamingIdx,
                  showLimitModal, inflight, visited, sends, last >>

\* fetchPortfolio after its await, the lookup having failed
LookupFailed(k) ==
  /\ Mounted
  /\ orphan' = FALSE
  /\ k \in 1..Len(lookups)
  /\ loading' = FALSE
  /\ lookups' = Without(lookups, k)
  /\ UNCHANGED << customUrl, portfolio, messages, inputMessage, sending,
                  streamingIdx, showLimitModal, displayed, indexRef, interval,
                  renderError, inflight, visited, sends, last >>

\* ------------------------------------------------------------------ sending
\* onChange of the input box
Type(text) ==
  /\ Surface
  /\ orphan' = FALSE
  /\ ~sending
  /\ text # inputMessage
  /\ inputMessage' = text
  /\ UNCHANGED << customUrl, portfolio, loading, messages, sending,
                  streamingIdx, showLimitModal, displayed, indexRef, interval,
                  renderError, lookups, inflight, visited, sends, last >>

\* sendMessage without the test of the sending flag
sendMessage_unguarded(text) ==
  LET msg == IF Falsy(text) THEN Trim(inputMessage) ELSE text
  IN IF Falsy(msg)
       THEN /\ last' = Task("sendMessage", text, FALSE)
            /\ UNCHANGED << inputMessage, sending, messages, inflight, sends >>
       ELSE /\ inputMessage' = <<>>
            /\ sending' = TRUE
            /\ messages' = Append(messages, Message("user", msg))
            /\ inflight' = Append(inflight,
                 [url |-> customUrl, message |-> msg,
                  before |-> [messages |-> messages, streamingIdx |-> streamingIdx]])
            /\ sends' = sends + 1
            /\ last' = Task("sendMessage", text, TRUE)

\* sendMessage taking the input buffer as it is, untrimmed
sendMessage_untrimmed(text) ==
  LET msg == IF Falsy(text) THEN inputMessage ELSE text
  IN IF Falsy(msg) \/ sending
       THEN /\ last' = Task("sendMessage", text, FALSE)
            /\ UNCHANGED << inputMessage, sending, messages, inflight, sends >>
       ELSE /\ inputMessage' = <<>>
            /\ sending' = TRUE
            /\ messages' = Append(messages, Message("user", msg))
            /\ inflight' = Append(inflight,
                 [url |-> customUrl, message |-> msg,
                  before |-> [messages |-> messages, streamingIdx |-> streamingIdx]])
            /\ sends' = sends + 1
            /\ last' = Task("sendMessage", text, TRUE)

\* sendMessage refusing a question while a message is streaming
sendMessage_blockedByReveal(text) ==
  LET msg == IF Falsy(text) THEN Trim(inputMessage) ELSE text
  IN IF Falsy(msg) \/ sending \/ streamingIdx # null
       THEN /\ last' = Task("sendMessage", text, FALSE)
            /\ UNCHANGED << inputMessage, sending, messages, inflight, sends >>
       ELSE /\ inputMessage' = <<>>
            /\ sending' = TRUE
            /\ messages' = Append(messages, Message("user", msg))
            /\ inflight' = Append(inflight,
                 [url |-> customUrl, message |-> msg,
                  before |-> [messages |-> messages, streamingIdx |-> streamingIdx]])
            /\ sends' = sends + 1
            /\ last' = Task("sendMessage", text, TRUE)

\* sendMessage clearing the input only when the question was typed
sendMessage_keepingInput(text) ==
  LET msg == IF Falsy(text) THEN Trim(inputMessage) ELSE text
  IN IF Falsy(msg) \/ sending
       THEN /\ last' = Task("sendMessage", text, FALSE)
            /\ UNCHANGED << inputMessage, sending, messages, inflight, sends >>
       ELSE /\ inputMessage' = IF Falsy(text) THEN <<>> ELSE inputMessage
            /\ sending' = TRUE
            /\ messages' = Append(messages, Message("user", msg))
            /\ inflight' = Append(inflight,
                 [url |-> customUrl, message |-> msg,
                  before |-> [messages |-> messages, streamingIdx |-> streamingIdx]])
            /\ sends' = sends + 1
            /\ last' = Task("sendMessage", text, TRUE)

\* sendMessage up to its await
sendMessage(text) ==
  LET msg == IF Falsy(text) THEN Trim(inputMessage) ELSE text
  IN IF Falsy(msg) \/ sending
       THEN /\ last' = Task("sendMessage", text, FALSE)
            /\ UNCHANGED << inputMessage, sending, messages, inflight, sends >>
       ELSE /\ inputMessage' = <<>>
            /\ sending' = TRUE
            /\ messages' = Append(messages, Message("user", msg))
            /\ inflight' = Append(inflight,
                 [url |-> customUrl, message |-> msg,
                  before |-> [messages |-> messages, streamingIdx |-> streamingIdx]])
            /\ sends' = sends + 1
            /\ last' = Task("sendMessage", text, TRUE)

\* a click or key handler that calls sendMessage
Call(text) ==
  /\ Surface
  /\ orphan' = FALSE
  /\ sends < MaxSends
  /\ sendMessage(text)
  /\ StreamingMessage(messages', streamingIdx)
  /\ UNCHANGED << customUrl, portfolio, loading, streamingIdx, showLimitModal,
                  lookups, visited >>

\* the Send button
ClickSend == Call(undefined)

\* handleKeyPress on Enter without Shift
PressEnter == Call(undefined)

\* the i-th suggested-question button
ClickSuggested(i) ==
  /\ i \in 1..Len(recommendedQuestions)
  /\ Call(recommendedQuestions[i])

\* addAssistantMessage putting the new message in front of the list
addAssistantMessage_prepending(text) ==
  /\ messages' = << Message("assistant", text) >> \o messages
  /\ streamingIdx' = Len(messages') - 1

addAssistantMessage(text) ==
  /\ messages' = Append(messages, Message("assistant", text))
  /\ streamingIdx' = Len(messages') - 1

\* a settlement without the finally block
Settled_noFinally(k, op) ==
  /\ Mounted
  /\ orphan' = Orphaned(messages', streamingIdx')
  /\ UNCHANGED sending
  /\ inflight' = Without(inflight, k)
  /\ StreamingMessage(messages', streamingIdx')
  /\ last' = Task(op, <<>>, TRUE)
  /\ UNCHANGED << customUrl, portfolio, loading, inputMessage, lookups,
                  visited, sends >>

\* what every settlement of a chat request does: finally, and the re-render
Settled(k, op) ==
  /\ Mounted
  /\ orphan' = Orphaned(messages', streamingIdx')
  /\ sending' = FALSE
  /\ inflight' = Without(inflight, k)
  /\ StreamingMessage(messages', streamingIdx')
  /\ last' = Task(op, <<>>, TRUE)
  /\ UNCHANGED << customUrl, portfolio, loading, inputMessage, lookups,
                  visited, sends >>

\* sendMessage after its await: the request succeeded with answer text
ChatSuccess(k, text) ==
  /\ k \in 1..Len(inflight)
  /\ addAssistantMessage(text)
  /\ UNCHANGED showLimitModal
  /\ Settled(k, "success")

\* sendMessage after its await: the request succeeded with a body that
\* carries no response string, so response.data.response is undefined
ChatMalformed(k) ==
  /\ k \in 1..Len(inflight)
  /\ addAssistantMessage(undefined)
  /\ UNCHANGED showLimitModal
  /\ Settled(k, "malformed")

\* the catch block without its 429 branch
ChatRateLimited_asFailure(k) ==
  /\ k \in 1..Len(inflight)
  /\ addAssistantMessage(FallbackText)
  /\ UNCHANGED showLimitModal
  /\ Settled(k, "rateLimited")

\* the 429 branch raising the popup the first time only
ChatRateLimited_onceOnly(k) ==
  /\ k \in 1..Len(inflight)
  /\ showLimitModal' = (\A i \in 2..(Len(messages) - 1) : messages[i].role # "user")
  /\ UNCHANGED << messages, streamingIdx >>
  /\ Settled(k, "rateLimited")

\* sendMessage after its await: the request failed with status 429
ChatRateLimited(k) ==
  /\ k \in 1..Len(inflight)
  /\ showLimitModal' = TRUE
  /\ UNCHANGED << messages, streamingIdx >>
  /\ Settled(k, "rateLimited")

\* the catch block raising the toast only
ChatFailure_toastOnly(k) ==
  /\ k \in 1..Len(inflight)
  /\ UNCHANGED << messages, streamingIdx, showLimitModal >>
  /\ Settled(k, "failure")

\* sendMessage after its await: the request failed in any other way
ChatFailure(k) ==
  /\ k \in 1..Len(inflight)
  /\ addAssistantMessage(FallbackText)
  /\ UNCHANGED showLimitModal
  /\ Settled(k, "failure")

\* the dismissal of the popup unlocking the input as well
DismissLimitModal_clearingSending ==
  /\ Surface
  /\ orphan' = FALSE
  /\ showLimitModal
  /\ showLimitModal' = FALSE
  /\ sending' = FALSE
  /\ UNCHANGED << customUrl, portfolio, loading, messages, inputMessage,
                  streamingIdx, displayed, indexRef, interval,
                  renderError, lookups, inflight, visited, sends, last >>

\* the X button or the Dismiss button of the limit popup
DismissLimitModal ==
  /\ Surface
  /\ orphan' = FALSE
  /\ showLimitModal
  /\ showLimitModal' = FALSE
  /\ UNCHANGED << customUrl, portfolio, loading, messages, inputMessage,
                  sending, streamingIdx, displayed, indexRef, interval,
                  renderError, lookups, inflight, visited, sends, last >>

\* ------------------------------------------------------------------- reveal
\* the interval callback with the cursor never stored back
Tick_cursorNotStored ==
  /\ Mounted
  /\ orphan' = FALSE
  /\ interval
  /\ LET content == messages[streamingIdx + 1].content
     IN IF indexRef >= Len(content)
          THEN /\ streamingIdx' = null
               /\ StreamingMessage(messages, streamingIdx')
          ELSE LET end == Min(indexRef + CHUNK, Len(content))
               IN /\ displayed' = Slice0(content, end)
                  /\ UNCHANGED << indexRef, streamingIdx, interval, renderError >>
  /\ UNCHANGED << customUrl, portfolio, loading, messages, inputMessage,
                  sending, showLimitModal, lookups, inflight, visited, sends,
                  last >>

\* the interval callback publishing the whole content at its first tick
Tick_wholeContent ==
  /\ Mounted
  /\ orphan' = FALSE
  /\ interval
  /\ LET content == messages[streamingIdx + 1].content
     IN IF indexRef >= Len(content)
          THEN /\ streamingIdx' = null
               /\ StreamingMessage(messages, streamingIdx')
          ELSE LET end == Len(content)
               IN /\ displayed' = Slice0(content, end)
                  /\ indexRef' = end
                  /\ UNCHANGED << streamingIdx, interval, renderError >>
  /\ UNCHANGED << customUrl, portfolio, loading, messages, inputMessage,
                  sending, showLimitModal, lookups, inflight, visited, sends,
                  last >>

\* the interval callback completing in the tick that publishes the end
Tick_completingAtOnce ==
  /\ Mounted
  /\ orphan' = FALSE
  /\ interval
  /\ LET content == messages[streamingIdx + 1].content
     IN IF indexRef + CHUNK >= Len(content)
          THEN /\ streamingIdx' = null
               /\ StreamingMessage(messages, streamingIdx')
          ELSE LET end == Min(indexRef + CHUNK, Len(content))
               IN /\ displayed' = Slice0(content, end)
                  /\ indexRef' = end
                  /\ UNCHANGED << streamingIdx, interval, renderError >>
  /\ UNCHANGED << customUrl, portfolio, loading, messages, inputMessage,
                  sending, showLimitModal, lookups, inflight, visited, sends,
                  last >>

\* the interval callback advancing the cursor by CHUNK without Math.min
Tick_unclamped ==
  /\ Mounted
  /\ orphan' = FALSE
  /\ interval
  /\ LET content == messages[streamingIdx + 1].content
     IN IF indexRef >= Len(content)
          THEN /\ streamingIdx' = null
               /\ StreamingMessage(messages, streamingIdx')
          ELSE LET end == indexRef + CHUNK
               IN /\ displayed' = Slice0(content, Min(end, Len(content)))
                  /\ indexRef' = end
                  /\ UNCHANGED << streamingIdx, interval, renderError >>
  /\ UNCHANGED << customUrl, portfolio, loading, messages, inputMessage,
                  sending, showLimitModal, lookups, inflight, visited, sends,
                  last >>

\* the callback of the interval StreamingMessage armed
Tick ==
  /\ Mounted
  /\ orphan' = FALSE
  /\ interval
  /\ LET content == messages[streamingIdx + 1].content
     IN IF indexRef >= Len(content)
          THEN /\ streamingIdx' = null
               /\ StreamingMessage(messages, streamingIdx')
          ELSE LET end == Min(indexRef + CHUNK, Len(content))
               IN /\ displayed' = Slice0(content, end)
                  /\ indexRef' = end
                  /\ UNCHANGED << streamingIdx, interval, renderError >>
  /\ UNCHANGED << customUrl, portfolio, loading, messages, inputMessage,
                  sending, showLimitModal, lookups, inflight, visited, sends,
                  last >>

\* the completion tick of an interval whose StreamingMessage is gone: the
\* callback finds the cursor at the end, clears the interval and calls the
\* onDone it was given, setStreamingIdx(null)
OrphanTick ==
  /\ Mounted
  /\ orphan
  /\ orphan' = FALSE
  /\ streamingIdx' = null
  /\ StreamingMessage(messages, streamingIdx')
  /\ UNCHANGED << customUrl, portfolio, loading, messages, inputMessage,
                  sending, showLimitModal, lookups, inflight, visited, sends,
                  last >>

Next ==
  \/ \E url \in Urls : RouteChange(url)
  \/ \E k \in 1..Len(lookups) : LookupFound(k)
  \/ \E k \in 1..Len(lookups) : LookupFailed(k)
  \/ \E text \in TypedTexts : Type(text)
  \/ ClickSend
  \/ PressEnter
  \/ \E i \in SuggestedClicked : ClickSuggested(i)
  \/ \E k \in 1..Len(inflight), text \in AnswerTexts : ChatSuccess(k, text)
  \/ \E k \in 1..Len(inflight) : ChatMalformed(k)
  \/ \E k \in 1..Len(inflight) : ChatRateLimited(k)
  \/ \E k \in 1..Len(inflight) : ChatFailure(k)
  \/ DismissLimitModal
  \/ Tick
  \/ OrphanTick

Spec == Init /\ [][Next]_vars

\* some outstanding chat request settles
ChatSettle ==
  \E k \in 1..Len(inflight) :
    \/ \E text \in AnswerTexts : ChatSuccess(k, text)
    \/ ChatMalformed(k)
    \/ ChatRateLimited(k)
    \/ ChatFailure(k)

\* an armed interval keeps firing (setInterval, line 61)
RevealSpec == Spec /\ WF_vars(Tick)

\* every chat request is eventually answered or fails
SettleSpec == Spec /\ WF_vars(ChatSettle)

\* ------------------------------------------------------------- step kinds
\* the step is a call of sendMessage (a call that changes nothing at all,
\* not even `last`, is a stuttering step)
IsCall == last' # last /\ last'.op = "sendMessage"

\* the step settles a chat request with the named outcome
IsSettle(op) == last' # last /\ last'.op = op

C2_CallWhileSendingIsNoOp ==
  [][ (IsCall /\ sending) =>
        /\ ~last'.accepted
        /\ UNCHANGED << messages, sending, streamingIdx, showLimitModal,
                        inputMessage, inflight, lookups, displayed, indexRef,
                        interval, renderError >> ]_vars

\* a suggested question was clicked while a request was outstanding
C2_Witness ==
  /\ sending
  /\ last.op = "sendMessage" /\ ~last.accepted
  /\ last.text = recommendedQuestions[1]
  /\ messages[Len(messages)].role = "user"
  /\ Len(inflight) = 1

\* C3: an accepted sendMessage call (text non-empty after trimming, sending
\* clear) appends exactly one user message whose content is trim(text), in
\* the step that issues its request and so before the response is
\* processed; typed input and suggested questions alike.
C3_AcceptedCallAppendsUserMessage ==
  [][ IsCall =>
        LET text == IF Falsy(last'.text) THEN inputMessage ELSE last'.text
        IN /\ last'.accepted <=> (~Falsy(Trim(text)) /\ ~sending)
           /\ last'.accepted =>
                 /\ messages' = Append(messages, Message("user", Trim(text)))
                 /\ Len(inflight') = Len(inflight) + 1
                 /\ inflight'[Len(inflight')].message = Trim(text) ]_vars

\* a typed text with white space around it was accepted and its request is
\* still outstanding
C3_Witness ==
  /\ last.op = "sendMessage" /\ last.accepted /\ last.text = undefined
  /\ last.input = Spaces(MaxPadding) \o << "a" >> \o Spaces(MaxPadding)
  /\ Len(inflight) = 1
  /\ messages[Len(messages)] = Message("user", << "a" >>)

\* a reveal is under way: the page is mounted and the streaming message
\* shows less than its content
Revealing ==
  /\ Mounted
  /\ Streams(messages, streamingIdx)
  /\ displayed # messages[streamingIdx + 1].content

\* C4: a chat request that settles successfully with answer R appends exactly
\* one assistant message with content R and points streamingIdx at it, so
\* that a reveal starts on it; unless that reveal is cancelled, the text
\* shown for the message eventually is R in full: no behaviour stays for
\* ever in a reveal of one and the same message that is short of its content.
C4_SuccessAppendsAndReveals ==
  /\ [][ IsSettle("success") =>
           \E R \in AnswerTexts :
             /\ messages' = Append(messages, Message("assistant", R))
             /\ streamingIdx' = Len(messages)
             /\ displayed' = <<>> /\ indexRef' = 0
             /\ interval' = (R # <<>>) ]_vars
  /\ \/ []<>~Revealing
     \/ []<><< streamingIdx' # streamingIdx >>_vars

\* welcome, question and the answer, revealed in full
C4_Witness ==
  /\ last.op = "success"
  /\ Len(messages) = 3
  /\ messages[3] = Message("assistant", SubSeq(AnswerAlphabet, 1, MaxAnswerLen))
  /\ streamingIdx = 2
  /\ Shown(2) = messages[3].content

\* the request the step settles, C1 leaving one candidate
Settling == inflight[1]

\* C5 as stated: after a request failed with 429, compared with the state
\* just before its sendMessage call the list has grown by exactly the user
\* message and streamingIdx is unchanged.
C5_UnchangedSinceCall ==
  [][ IsSettle("rateLimited") =>
        /\ messages' = Append(Settling.before.messages,
                              Message("user", Settling.message))
        /\ streamingIdx' = Settling.before.streamingIdx ]_vars

\* C5 amended: the settlement of a request that failed with 429 appends no
\* assistant message and leaves the list and streamingIdx as it found
\* them; against the state before the call, the list is that list plus the
\* user message unless the portfolio was looked up again meanwhile (then it
\* is the new greeting alone), and streamingIdx is what it was or null.
C5_RateLimitedAppendsNothing ==
  [][ IsSettle("rateLimited") =>
        /\ UNCHANGED << messages, streamingIdx >>
        /\ showLimitModal'
        /\ \/ messages' = Append(Settling.before.messages,
                                 Message("user", Settling.message))
           \/ /\ Len(messages') = 1
              /\ messages'[1].content = WelcomeText(portfolio.owner_name)
        /\ streamingIdx' \in {Settling.before.streamingIdx, null} ]_vars

\* welcome and question only, the popup raised
C5_Witness ==
  /\ last.op = "rateLimited"
  /\ Len(messages) = 2
  /\ messages[2].role = "user"
  /\ showLimitModal
  /\ inflight = <<>>

\* C6: a request that fails otherwise appends exactly one assistant message
\* with the fixed fallback text, shown at once in full: streamingIdx does not
\* point at it and no reveal runs on it.
C6_FallbackNotStreamed ==
  [][ IsSettle("failure") =>
        /\ messages' = Append(messages, Message("assistant", FallbackText))
        /\ streamingIdx' # Len(messages)
        /\ ~interval' ]_vars

\* C7: a settlement of a chat request, whatever its outcome, leaves sending
\* false; if every request settles, sending = TRUE leads to sending = FALSE.
C7_SendingClearedOnSettle ==
  /\ [][ Len(inflight') < Len(inflight) => ~sending' ]_vars
  /\ sending ~> ~sending

\* a request has failed, and the flag is clear
C7_Witness ==
  /\ last.op \in {"rateLimited", "failure"}
  /\ ~sending
  /\ inflight = <<>>

\* the request of the user message at position i (one-based) has settled
Resolved(i) == ~(i = Len(messages) /\ inflight # <<>>)

IsRole(i, role) == i <= Len(messages) /\ messages[i].role = role

\* C8 as stated: once its request has settled, a user message is followed
\* at once by exactly one assistant message, whatever the outcome.
C8_ExactlyOneReply ==
  Surface =>
    \A i \in 1..Len(messages) :
      (IsRole(i, "user") /\ Resolved(i)) =>
        IsRole(i + 1, "assistant") /\ ~IsRole(i + 2, "assistant")

\* C8 amended: once its request has settled, a user message is followed at
\* once by exactly one assistant message when the request succeeded or
\* failed otherwise, and by no assistant message when it was rate limited;
\* never by more than one.
C8_OneReplyUnlessRateLimited ==
  /\ [](Surface =>
         \A i \in 1..Len(messages) :
           IsRole(i, "user") =>
             ~(IsRole(i + 1, "assistant") /\ IsRole(i + 2, "assistant")))
  /\ [][ (Len(inflight') < Len(inflight) /\ IsRole(Len(messages), "user")) =>
           IF last'.op = "rateLimited"
             THEN messages' = messages
             ELSE /\ Len(messages') = Len(messages) + 1
                  /\ SubSeq(messages', 1, Len(messages)) = messages
                  /\ messages'[Len(messages')].role = "assistant" ]_vars

\* a rate-limited question followed by an answered one
C8_Witness ==
  /\ Len(messages) = 4
  /\ IsRole(2, "user") /\ IsRole(3, "user") /\ IsRole(4, "assistant")
  /\ inflight = <<>>

\* C9: whenever the chat surface is rendered the list is non-empty, its
\* first element is the assistant greeting built from the owner_name that
\* was looked up, and that greeting occurs nowhere else in the list.
C9_StartsWithOneWelcome ==
  Surface =>
    /\ messages # <<>>
    /\ messages[1] = Message("assistant", WelcomeText(portfolio.owner_name))
    /\ \A i \in 2..Len(messages) : messages[i] # messages[1]

\* the conversation of a second portfolio, seeded anew and continued
C9_Witness ==
  /\ Surface
  /\ portfolio.owner_name = owner_name("omar")
  /\ visited = Urls
  /\ lookups = <<>>
  /\ Len(messages) = 3

LatestAssistant(idx) ==
  /\ Streams(messages, idx)
  /\ \A j \in (idx + 1)..(Len(messages) - 1) : messages[j + 1].role # "assistant"

\* C11: in every reachable state of the mounted page streamingIdx is null or the index of the
\* latest assistant message; the reveal timer, of which there is at most
\* one, belongs to that message, and streamingIdx is null whenever no reveal
\* is in progress.
C11_StreamingIdxIsTheReveal ==
  Mounted =>
    /\ streamingIdx # null => LatestAssistant(streamingIdx)
    /\ interval => Streams(messages, streamingIdx)
    /\ ~interval => streamingIdx = null

\* C12: a reveal that has started on an assistant message of any length,
\* the empty one included, and is not cancelled ends with the timer stopped
\* and streamingIdx null: no behaviour keeps streamingIdx for ever on one
\* and the same message.
C12_RevealCompletes ==
  \/ []<>~(Mounted /\ Streams(messages, streamingIdx))
  \/ []<><< streamingIdx' # streamingIdx >>_vars

\* the step is a tick that publishes a longer text for the message that
\* was, and stays, the streaming one
Publishes ==
  /\ interval /\ interval'
  /\ UNCHANGED << messages, streamingIdx >>
  /\ indexRef' # indexRef

\* C13: during a reveal of content C the text displayed after k publishing
\* ticks is the prefix of C of length min(3k, |C|): it is always a prefix
\* of C, each publishing tick lengthens it by 3 characters or up to the end
\* of C, and it never gets shorter within one reveal.
C13_DisplayedIsChunkedPrefix ==
  /\ [](Streams(messages, streamingIdx) =>
          LET C == messages[streamingIdx + 1].content
          IN /\ indexRef \in 0..Len(C)
             /\ displayed = Slice0(C, indexRef)
             /\ \E k \in 0..Len(C) : indexRef = Min(3 * k, Len(C)))
  /\ [][ Publishes =>
           LET C == messages[streamingIdx + 1].content
           IN /\ Len(displayed') = Min(Len(displayed) + 3, Len(C))
              /\ Len(displayed') > Len(displayed) ]_vars

\* a reveal whose second tick published fewer than 3 characters, the end
\* of the content having been reached
C13_Witness ==
  /\ interval
  /\ LET C == messages[streamingIdx + 1].content
     IN /\ Len(C) > 3 /\ Len(C) < 2 * 3
        /\ displayed = C
        /\ indexRef = Len(C)

\* C14: a successful reply whose body carries no response string is treated
\* as a generic failure: the fallback assistant message is appended, and no
\* error escapes to the page as an uncaught exception.
C14_MalformedIsGenericFailure ==
  [][ IsSettle("malformed") =>
        /\ messages' = Append(messages, Message("assistant", FallbackText))
        /\ ~renderError' ]_vars

\* C15: every rate-limited response raises the quota popup, whatever
\* happened before: showLimitModal is true after it, also when an earlier
\* popup was dismissed; the flag goes up on nothing but a rate-limited
\* response and comes down on nothing but a dismissal, so no state
\* suppresses or delays a later popup.
C15_EveryRateLimitRaisesModal ==
  /\ [][ IsSettle("rateLimited") => showLimitModal' ]_vars
  /\ [][ (~showLimitModal /\ showLimitModal') => IsSettle("rateLimited") ]_vars
  /\ [][ (showLimitModal /\ ~showLimitModal') =>
           UNCHANGED << messages, sending, streamingIdx, inflight, last >> ]_vars

\* two questions were rate limited; the second response found the popup
\* dismissed and raised it again
C15_Witness ==
  /\ last.op = "rateLimited"
  /\ ~last.modal
  /\ showLimitModal
  /\ Len(messages) = 3
  /\ IsRole(2, "user") /\ IsRole(3, "user")
  /\ inflight = <<>>

\* C16: messages are appended in the order in which their operations
\* complete, which is the order of issue: a question is accepted only when
\* every earlier question has settled, its user message goes to the end of
\* the list, nothing is appended while its request is outstanding, and the
\* settlement puts the reply, if any, at the end of the list; so the answer
\* to an earlier question precedes the user message and the answer of every
\* later question.
C16_AppendedInIssueOrder ==
  /\ [][ (IsCall /\ last'.accepted) =>
           /\ inflight = <<>>
           /\ Len(messages') = Len(messages) + 1
           /\ SubSeq(messages', 1, Len(messages)) = messages
           /\ messages'[Len(messages')].role = "user" ]_vars
  /\ [][ (inflight # <<>> /\ inflight' = inflight) =>
           \/ messages' = messages
           \/ Len(messages') = 1 ]_vars
  /\ [][ Len(inflight') < Len(inflight) =>
           /\ inflight' = <<>>
           /\ \/ messages' = messages
              \/ /\ Len(messages') = Len(messages) + 1
                 /\ SubSeq(messages', 1, Len(messages)) = messages
                 /\ messages'[Len(messages')].role = "assistant" ]_vars

\* two questions, each answered before the next message was appended
C16_Witness ==
  /\ Len(messages) = 5
  /\ IsRole(2, "user") /\ IsRole(3, "assistant")
  /\ IsRole(4, "user") /\ IsRole(5, "assistant")
  /\ messages[2].content # messages[4].content
  /\ inflight = <<>>

\* s is a prefix of t
IsPrefix(s, t) == Len(s) <= Len(t) /\ SubSeq(t, 1, Len(s)) = s

\* C17 as stated: the list is append-only: across every transition the
\* previous list is a prefix of the new one.
C17_AppendOnly == [][ IsPrefix(messages, messages') ]_vars

\* C17 amended: the list is append-only between portfolio lookups: across
\* every transition the previous list is a prefix of the new one, except
\* that a lookup that succeeds replaces the list by the greeting of the
\* portfolio it found.
C17_AppendOnlyBetweenLookups ==
  [][ \/ IsPrefix(messages, messages')
      \/ /\ Len(lookups') < Len(lookups)
         /\ portfolio'.present
         /\ messages' = << Message("assistant", WelcomeText(portfolio'.owner_name)) >>
    ]_vars

\* a question was asked, and the lookup of a second portfolio has replaced
\* the conversation by its greeting
C17_Witness ==
  /\ Surface
  /\ sends > 0
  /\ visited = Urls
  /\ messages = << Message("assistant", WelcomeText(owner_name("omar"))) >>

\* C18: a sendMessage call whose text is empty after trimming is ignored
\* in silence, for typed input and for a suggested question alike: no user
\* message, no request, sending not set, nothing thrown, and the input
\* buffer left as it is.
C18_BlankTextIsIgnored ==
  [][ IsCall =>
        LET text == IF Falsy(last'.text) THEN inputMessage ELSE last'.text
        IN Falsy(Trim(text)) =>
             /\ ~last'.accepted
             /\ UNCHANGED << messages, inflight, sending, inputMessage,
                             streamingIdx, showLimitModal, renderError >> ]_vars

\* Send was pressed on an input of white space only, with no request
\* outstanding, and nothing happened
C18_Witness ==
  /\ last.op = "sendMessage" /\ ~last.accepted /\ last.text = undefined
  /\ last.input = Spaces(MaxPadding) \o Spaces(MaxPadding)
  /\ last.input # <<>>
  /\ inputMessage = last.input
  /\ ~sending /\ inflight = <<>>
  /\ Len(messages) = 1

\* C19: an active reveal never blocks sending: a sendMessage call with
\* sending false and a text that is not blank is accepted whether
\* streamingIdx is null or not, it leaves a running reveal as it is, and
\* the timer of a reveal can fire in every state, a request outstanding or
\* not.
C19_RevealNeverBlocksSending ==
  /\ [][ IsCall =>
           LET text == IF Falsy(last'.text) THEN inputMessage ELSE last'.text
           IN (~sending /\ ~Falsy(Trim(text))) =>
                /\ last'.accepted
                /\ UNCHANGED << streamingIdx, displayed, indexRef, interval >> ]_vars
  /\ [](interval => ENABLED Tick)

\* a question was accepted while an answer was being revealed, and the
\* reveal is going on with its request outstanding
C19_Witness ==
  /\ sending /\ Len(inflight) = 1
  /\ last.op = "sendMessage" /\ last.accepted
  /\ streamingIdx = 2 /\ interval
  /\ Len(messages) = 4
  /\ displayed # <<>> /\ displayed # messages[3].content

\* the not-found page is shown (the second early return of the component)
NotFound == Mounted /\ ~loading /\ ~portfolio.present

\* the step is the failure of the lookup of the portfolio the route names
CurrentLookupFails ==
  /\ \E k \in 1..Len(lookups) :
       lookups[k].url = customUrl /\ lookups' = Without(lookups, k)
  /\ UNCHANGED << portfolio, messages >>

\* C20: when the lookup of the route's portfolio fails, also after the
\* route's identifier has changed, the message list is empty and the
\* not-found page is shown in place of the chat surface; and that is
\* terminal: while the route names that portfolio the list stays empty, the
\* not-found page stays and no sendMessage call is made.
C20_LookupFailureIsTerminal ==
  /\ [][ CurrentLookupFails => (NotFound' /\ messages' = <<>>) ]_vars
  /\ [][ (NotFound /\ lookups = <<>> /\ customUrl' = customUrl) =>
           (NotFound' /\ messages' = <<>> /\ ~IsCall) ]_vars

\* the step is the completion tick of the running reveal
Completes ==
  /\ interval
  /\ indexRef >= Len(messages[streamingIdx + 1].content)
  /\ streamingIdx' = null
  /\ UNCHANGED messages

\* the step cancels the running reveal: its StreamingMessage is unmounted
\* or given another content while its interval is armed
Cancels ==
  /\ interval
  /\ ~Completes
  /\ ~renderError'
  /\ ~( /\ Streams(messages', streamingIdx')
        /\ streamingIdx' = streamingIdx
        /\ messages'[streamingIdx' + 1].content = messages[streamingIdx + 1].content )

C22_SendingClearedOnlyOnSettle ==
  /\ [][ (sending /\ ~sending') => Len(inflight') < Len(inflight) ]_vars
  /\ [](inflight # <<>> => sending)
  /\ [][ (IsCall /\ inflight # <<>>) => ~last'.accepted ]_vars

\* a request is outstanding across a change of portfolio: the conversation
\* was seeded anew, sending is still true and a question was rejected
C22_Witness ==
  /\ Surface
  /\ sending /\ Len(inflight) = 1
  /\ visited = Urls /\ lookups = <<>>
  /\ Len(messages) = 1
  /\ last.op = "sendMessage" /\ ~last.accepted
  /\ last.text = recommendedQuestions[1]

\* C23: the quota flag is separate from the conversation: the step that
\* raises it (a rate-limited response) and the step that dismisses it leave
\* the message list and streamingIdx unchanged, and the dismissal leaves
\* sending unchanged.
C23_ModalApartFromConversation ==
  [][ (IsSettle("rateLimited") \/ showLimitModal' # showLimitModal) =>
        /\ UNCHANGED << messages, streamingIdx >>
        /\ (showLimitModal /\ ~showLimitModal') => UNCHANGED sending ]_vars

\* a second question was asked while the popup of a rate-limited first one
\* was up, and the popup was dismissed with the request outstanding
C23_Witness ==
  /\ ~showLimitModal
  /\ sending /\ Len(inflight) = 1
  /\ last.op = "sendMessage" /\ last.accepted /\ last.modal
  /\ Len(messages) = 3
  /\ IsRole(2, "user") /\ IsRole(3, "user")

\* C24: the three effects of an accepted sendMessage call take effect
\* together, before the request can settle: the step that appends the user
\* message also sets sending and empties the input buffer, for a suggested
\* question too, so in no state is the user message of an unsettled request
\* in the list with sending false.
C24_AcceptedCallIsOneStep ==
  /\ [][ (IsCall /\ last'.accepted) =>
           /\ Len(messages') = Len(messages) + 1
           /\ messages'[Len(messages')].role = "user"
           /\ sending'
           /\ inputMessage' = <<>>
           /\ Len(inflight') = Len(inflight) + 1 ]_vars
  /\ [][ Len(inflight') > Len(inflight) => (IsCall /\ last'.accepted) ]_vars
  /\ [](\A k \in 1..Len(inflight) : sending)

\* a suggested question was accepted while a text was in the input box,
\* and the box is empty
C24_Witness ==
  /\ last.op = "sendMessage" /\ last.accepted
  /\ last.text = recommendedQuestions[1]
  /\ Trim(last.input) # <<>>
  /\ inputMessage = <<>>
  /\ sending /\ Len(inflight) = 1
  /\ messages[Len(messages)] = Message("user", recommendedQuestions[1])

\* C25: the completion of one message's reveal never clears the cursor of
\* another message: streamingIdx goes from a message to null only in the
\* completion tick of the reveal of that very message, never in a tick of
\* the interval of an earlier message.
C25_CompletionClearsOwnCursorOnly ==
  [][ (Streams(messages, streamingIdx) /\ streamingIdx' = null) =>
        (~orphan /\ Completes) ]_vars

\* the outstanding chat request was made for another portfolio than the one
\* whose conversation is on the page
Stale ==
  /\ inflight # <<>>
  /\ portfolio.present
  /\ portfolio.owner_name # owner_name(inflight[1].url)

\* the step is a lookup that succeeds and seeds the conversation (every
\* lookup is for an identifier of its own, so it brings another portfolio)
Reseeds == Len(lookups') < Len(lookups) /\ portfolio' # portfolio

\* C26: a chat response of one portfolio identifier is never appended to the
\* conversation of another, and re-seeding the conversation does not leave
\* streamingIdx pointing at a message of the previous conversation.
C26_ConversationsKeptApart ==
  /\ [][ (Stale /\ Len(inflight') < Len(inflight)) => messages' = messages ]_vars
  /\ [][ Reseeds => streamingIdx' = null ]_vars

\* n / d rounded up
CeilDiv(n, d) == (n + d - 1) \div d

\* the number of publishing ticks the running reveal has performed: its
\* k-th publishing tick moves the cursor to min(3k, L)
TicksDone == CeilDiv(indexRef, CHUNK)

\* the step leaves the running reveal running: same message, same content
KeepsReveal ==
  /\ interval /\ interval'
  /\ streamingIdx' = streamingIdx
  /\ streamingIdx < Len(messages')
  /\ messages'[streamingIdx + 1].content = messages[streamingIdx + 1].content

\* C27: a reveal of a non-empty content of length L that is not cancelled
\* performs exactly ceil(L/3) publishing ticks and then one further tick,
\* which stops the timer and calls the completion callback; the callback
\* is called once per reveal, no tick following it.
C27_TicksOfAReveal ==
  /\ [](interval => /\ Streams(messages, streamingIdx)
                    /\ messages[streamingIdx + 1].content # <<>>)
  /\ [][ (interval' /\ ~KeepsReveal) => indexRef' = 0 ]_vars
  /\ [][ KeepsReveal =>
           LET L == Len(messages[streamingIdx + 1].content)
           IN \/ UNCHANGED << indexRef, displayed >>
              \/ /\ TicksDone < CeilDiv(L, CHUNK)
                 /\ TicksDone' = TicksDone + 1 ]_vars
  /\ [][ (interval /\ ~orphan /\ streamingIdx' = null) =>
           LET L == Len(messages[streamingIdx + 1].content)
           IN /\ TicksDone = CeilDiv(L, CHUNK)
              /\ ~interval'
              /\ UNCHANGED messages ]_vars
  /\ [](streamingIdx = null => ~interval)

\* the only answer of the page, of length MaxAnswerLen, has been revealed
\* to its end and its completion tick has cleared the cursor
C27_Witness ==
  /\ Mounted
  /\ visited = {FirstUrl}
  /\ Len(messages) = 3
  /\ messages[3].role = "assistant"
  /\ Len(messages[3].content) = MaxAnswerLen
  /\ last.op = "success"
  /\ streamingIdx = null
  /\ ~interval

\* C28: in every state of a reveal the cursor lies between 0 and the length
\* of the content, both included, and is a multiple of the chunk size 3 or
\* equal to the length of the content.
C28_CursorInRange ==
  (Mounted /\ Streams(messages, streamingIdx)) =>
    LET L == Len(messages[streamingIdx + 1].content)
    IN /\ indexRef >= 0
       /\ indexRef <= L
       /\ (indexRef % CHUNK = 0 \/ indexRef = L)

\* a reveal whose cursor stands at the end of a content whose length is no
\* multiple of the chunk size
C28_Witness ==
  /\ Mounted /\ interval
  /\ Streams(messages, streamingIdx)
  /\ indexRef = Len(messages[streamingIdx + 1].content)
  /\ indexRef % CHUNK # 0

\* ------------------------------------------ the earlier version of the page
\* the greeting of the earlier version: the same template literal without
\* the ** around owner_name
Old_WelcomeText(owner) ==
  SubSeq(WelcomePrefix, 1, Len(WelcomePrefix) - 2) \o owner
    \o SubSeq(WelcomeSuffix, 3, Len(WelcomeSuffix))

\* the state of the earlier version: messages, inputMessage, sending
Old_Page(msgs, input, flag) ==
  [messages |-> msgs, inputMessage |-> input, sending |-> flag]

\* fetchPortfolio of the earlier version after its await, the lookup found
Old_LookupFound(p, owner) ==
  [p EXCEPT !.messages = << Message("assistant", Old_WelcomeText(owner)) >>]

\* sendMessage of the earlier version up to its await
Old_sendMessage(p) ==
  IF Falsy(Trim(p.inputMessage)) \/ p.sending
    THEN p
    ELSE LET userMessage == Trim(p.inputMessage)
         IN Old_Page(Append(p.messages, Message("user", userMessage)), <<>>, TRUE)

\* sendMessage of the earlier version after its await: try and finally
Old_ChatSuccess(p, text) ==
  Old_Page(Append(p.messages, Message("assistant", text)), p.inputMessage, FALSE)

\* sendMessage of the earlier version after its await: catch and finally
\* (the fallback is the same literal as FallbackText)
Old_ChatFailure(p) ==
  Old_Page(Append(p.messages, Message("assistant", FallbackText)),
           p.inputMessage, FALSE)

\* the state of the earlier version that goes with the state of the page:
\* the same messages under its own greeting, the same input and flag
OldPage ==
  Old_Page(IF messages = <<>>
             THEN <<>>
             ELSE << Message("assistant", Old_WelcomeText(portfolio.owner_name)) >>
                    \o Tail(messages),
           inputMessage, sending)

\* the step is a call of sendMessage without argument
IsTypedCall == IsCall /\ last'.text = undefined

\* the step settles, with the named outcome, a request made by a call of
\* sendMessage without argument
SettlesTyped(op) ==
  /\ IsSettle(op)
  /\ Len(inflight') < Len(inflight)
  /\ \A i \in 1..Len(recommendedQuestions) :
       inflight[1].message # recommendedQuestions[i]

\* C29: without rate limiting the two versions of the page keep the same
\* conversation: started from states with the same roles, the same contents
\* after the welcome message and the same sending flag, every lookup, every
\* typed sendMessage call and every settlement by success or generic failure
\* takes both to such states again, the page being still there to show it,
\* and no other step of the page changes its messages or its flag.
C29_SameHistoryAsEarlierVersion ==
  /\ [][ Reseeds => OldPage' = Old_LookupFound(OldPage, portfolio'.owner_name) ]_vars
  /\ [][ IsTypedCall => OldPage' = Old_sendMessage(OldPage) ]_vars
  /\ [][ (SettlesTyped("success") \/ SettlesTyped("malformed")) =>
           /\ Mounted'
           /\ OldPage' = Old_ChatSuccess(OldPage, messages'[Len(messages')].content) ]_vars
  /\ [][ SettlesTyped("failure") => OldPage' = Old_ChatFailure(OldPage) ]_vars
  /\ [][ ~(Reseeds \/ IsCall \/ Len(inflight') < Len(inflight)) =>
           UNCHANGED << messages, sending >> ]_vars


====
